---------------------------- MODULE Spec2Model ----------------------------
(***************************************************************************)
(* A model of the stralg crate (mailund/stralg-in-rust): the alphabet and  *)
(* encoded-string layer (utils/alphabet.rs, utils/char.rs, utils/str.rs),  *)
(* the border arrays (patterns.rs) and the three matchers of search/       *)
(* (naive.rs, kmp.rs, bmh.rs).                                             *)
(*                                                                         *)
(* Rust indexes from 0 and TLA+ sequences from 1: every index held in the  *)
(* model (cursors, border values, offsets) is the Rust value, and At/SetAt *)
(* do the shift.  A Rust panic is an outcome of its own: operations that   *)
(* can panic return a record with a "panic" field and an iterator that     *)
(* panicked has kind "panic".                                              *)
(***************************************************************************)
EXTENDS Integers, Sequences, FiniteSets, TLC

VARIABLES
    build,  \* "debug": overflow checks on (a usize underflow panics); "release": it wraps
    text,   \* the &str x handed to naive / kmp / bmh, as a sequence of code points
    pat,    \* the &str p handed to naive / kmp / bmh
    nv,     \* the iterator returned by naive(x, p)
    km,     \* the iterator returned by kmp(x, p)
    bm,     \* the iterator returned by bmh(x, p)
    q,      \* SpecPat: the Str<u8> handed to the functions of patterns.rs / bmh.rs
    qba,    \* SpecPat: the result of border_array(&q)
    qsba,   \* SpecPat: the result of strict_border_array(&q)
    qbct,   \* SpecPat: the result of build_bad_char_table(&q)
    alpha,  \* SpecEnc: the Alphabet the caller encodes over
    src,    \* SpecEnc: the &str handed to Str::from_str / StrMapper::map_str
    wd,     \* SpecEnc: the type parameter Char of Str and StrMapper, "U8" or "U16"
    csize,  \* SpecEnc: the result of alpha.char_size()
    made,   \* SpecEnc: what the latest constructor of a Str returned
    cur,    \* SpecEnc: the Str the caller holds, as it is now
    got,    \* SpecEnc: the result of the latest indexing of cur
    strings,      \* SpecAlpha: the strings the alphabet is built from
    a_new,        \* SpecAlpha: the result of Alphabet::new
    a_from_str,   \* SpecAlpha: the result of Alphabet::from_str
    a_from_strs   \* SpecAlpha: the result of Alphabet::from_strs

searchVars == <<build, text, pat, nv, km, bm, q, qba, qsba, qbct>>
encVars == <<alpha, src, wd, csize, made, cur, got>>
alphaVars == <<strings, a_new, a_from_str, a_from_strs>>
vars == <<searchVars, encVars, alphaVars>>

---------------------------------------------------------------------------
(* Bounds of the model *)

\* longest text, in characters
MaxTextLen == 5
\* longest pattern handed to the matchers, in characters
MaxPatLen == 4
\* longest pattern handed to the pattern functions in SpecPat
MaxQLen == 6

\* The characters the inputs are drawn from: 'a', 'b' (one byte each in
\* UTF-8) and U+00E9 (two bytes).
Chars == {97, 98, 233}
\* the characters of the texts and patterns handed to the matchers
SearchChars == {97, 233}

\* all strings over S of at most n characters
Strs(S, n) == UNION {[1..k -> S] : k \in 0..n}

---------------------------------------------------------------------------
(* Rust's primitives *)

At(s, i) == s[i + 1]
SetAt(s, i, v) == [s EXCEPT ![i + 1] = v]
InRange(s, i) == i >= 0 /\ i < Len(s)

\* usize arithmetic is modulo 2^w.  w is 64 on the usual targets; the model
\* keeps w = 16, the narrowest usize Rust has: every length of the model is
\* far below it, so a wrapped difference is, as with w = 64, larger than
\* every index.
UsizeModulus == 2 ^ 16

\* a - b on usize: panics with overflow checks on, wraps without
usize_sub(a, b) ==
    IF a >= b THEN [panic |-> FALSE, v |-> a - b]
    ELSE IF build = "debug" THEN [panic |-> TRUE, v |-> 0]
    ELSE [panic |-> FALSE, v |-> UsizeModulus - (b - a)]

\* char::len_utf8
len_utf8(c) == IF c < 128 THEN 1 ELSE IF c < 2048 THEN 2 ELSE IF c < 65536 THEN 3 ELSE 4

\* str::len: the length in bytes
RECURSIVE str_len(_)
str_len(s) == IF s = <<>> THEN 0 ELSE len_utf8(Head(s)) + str_len(Tail(s))

\* str::is_empty
is_empty(s) == str_len(s) = 0

Some(v) == [some |-> TRUE, v |-> v]
None == [some |-> FALSE, v |-> 0]
Ok(v) == [ok |-> TRUE, v |-> v, err |-> ""]
Err(e) == [ok |-> FALSE, v |-> <<>>, err |-> e]

---------------------------------------------------------------------------
(* utils/char.rs *)

u8_MAX == 255
u16_MAX == 65535

\* CharacterTrait::MAX of the width W
Char_MAX(W) == IF W = "U8" THEN u8_MAX - 1 ELSE u16_MAX - 1

\* <Char as TryFrom<usize>>::try_from
Char_try_from(W, idx) ==
    IF idx <= (IF W = "U8" THEN u8_MAX ELSE u16_MAX) THEN Ok(idx)
    ELSE Err("Index conversion failed")

from_alphabet_size(size) ==
    LET U8_MAX == Char_MAX("U8")
        U16_MIN == U8_MAX + 1
        U16_MAX == Char_MAX("U16")
    IN  IF size >= 0 /\ size <= U8_MAX THEN Ok("U8")
        ELSE IF size >= U16_MIN /\ size < U16_MAX THEN Ok("U16")
        ELSE Err("Alphabet too large for known Char types")

---------------------------------------------------------------------------
(* utils/alphabet.rs *)

\* chars.iter().cloned().filter(|c| seen.insert(*c)).collect(): the first
\* occurrence of every character, in order
RECURSIVE unique_chars(_, _)
unique_chars(chars, seen) ==
    IF chars = <<>> THEN <<>>
    ELSE IF Head(chars) \in seen THEN unique_chars(Tail(chars), seen)
    ELSE <<Head(chars)>> \o unique_chars(Tail(chars), seen \cup {Head(chars)})

\* insert c into the ascending sequence s
RECURSIVE sorted_insert(_, _)
sorted_insert(s, c) ==
    IF s = <<>> THEN <<c>>
    ELSE IF c <= Head(s) THEN <<c>> \o s
    ELSE <<Head(s)>> \o sorted_insert(Tail(s), c)

\* chars.sort_unstable()
RECURSIVE sort_unstable(_)
sort_unstable(s) ==
    IF s = <<>> THEN <<>> ELSE sorted_insert(sort_unstable(Tail(s)), Head(s))

\* a mutant of Alphabet_new: the characters keep the order of their first
\* occurrence, the sort is left out
Alphabet_new_unsorted(chars) ==
    LET cs == unique_chars(chars, {})
    IN  [chars |-> cs,
         indices |-> [c \in {cs[i] : i \in 1..Len(cs)} |->
                         CHOOSE i \in 1..Len(cs) : cs[i] = c]]

Alphabet_new(chars) ==
    LET cs == sort_unstable(unique_chars(chars, {}))
    IN  [chars |-> cs,
         indices |-> [c \in {cs[i] : i \in 1..Len(cs)} |->
                         CHOOSE i \in 1..Len(cs) : cs[i] = c]]

Alphabet_from_str(s) == Alphabet_new(s)

\* the characters of the strings, one string after the other
RECURSIVE chars_of_strs(_)
chars_of_strs(strs) ==
    IF strs = <<>> THEN <<>> ELSE Head(strs) \o chars_of_strs(Tail(strs))

\* Alphabet::from_strs: the first occurrences of the characters of all the
\* strings, handed to Alphabet::new
Alphabet_from_strs(strs) == Alphabet_new(unique_chars(chars_of_strs(strs), {}))

Alphabet_contains(a, c) == c \in DOMAIN a.indices

Alphabet_index(a, c) == IF c \in DOMAIN a.indices THEN Some(a.indices[c]) ELSE None

Alphabet_len(a) == Len(a.chars)

Alphabet_char_size(a) == from_alphabet_size(Alphabet_len(a))

\* a mutant of map_char: every character of the alphabet gets the code 1
map_char_folding(a, W, c) ==
    IF Alphabet_len(a) > Char_MAX(W) THEN Err("Alphabet too large for Char type")
    ELSE IF ~Alphabet_index(a, c).some THEN Err("Character not in alphabet")
    ELSE Char_try_from(W, 1)

map_char(a, W, c) ==
    IF Alphabet_len(a) > Char_MAX(W) THEN Err("Alphabet too large for Char type")
    ELSE LET idx == Alphabet_index(a, c)
         IN  IF ~idx.some THEN Err("Character not in alphabet")
             ELSE Char_try_from(W, idx.v)

\* a mutant of collect_map_char: a character that is not in the alphabet is
\* left out of the result (a filter_map) instead of failing the collect
RECURSIVE collect_map_char_skipping(_, _, _)
collect_map_char_skipping(a, W, s) ==
    IF s = <<>> THEN Ok(<<>>)
    ELSE LET h == map_char(a, W, Head(s))
             t == collect_map_char_skipping(a, W, Tail(s))
         IN  IF ~h.ok THEN t
             ELSE IF ~t.ok THEN t ELSE Ok(<<h.v>> \o t.v)

\* s.chars().map(|c| self.map_char(c)).collect(): the codes, or the first error
collect_map_char(a, W, s) ==
    LET r == [k \in 1..Len(s) |-> map_char(a, W, s[k])]
        bad == {k \in 1..Len(s) : ~r[k].ok}
    IN  IF s = <<>> THEN Ok(<<>>)
        ELSE IF bad = {} THEN Ok([k \in 1..Len(s) |-> r[k].v])
        ELSE r[CHOOSE k \in bad : \A l \in bad : k <= l]

Alphabet_map_str(a, W, s) == collect_map_char(a, W, s)

---------------------------------------------------------------------------
(* utils/str.rs *)

\* Str<Char>: the codes and the (shared) alphabet
Str_new(x, alphabet) == [char_vector |-> x, alphabet |-> alphabet]

Str_len(s) == Len(s.char_vector)

\* Str::<Char>::from_str at the width W
Str_from_str(W, s, alphabet) ==
    IF Alphabet_len(alphabet) > Char_MAX(W) THEN Err("Alphabet too large for Char type")
    ELSE LET x == collect_map_char(alphabet, W, s)
         IN  IF ~x.ok THEN x ELSE Ok(Str_new(x.v, alphabet))

translate_to_this_alphabet(W, self, s) == Str_from_str(W, s, self.alphabet)

\* StrMapper<Char>: the width stands for the type parameter
StrMapper_new(W, alphabet) == [W |-> W, alphabet |-> alphabet]

StrMapper_map_str(mapper, s) ==
    LET char_vector == Alphabet_map_str(mapper.alphabet, mapper.W, s)
    IN  IF ~char_vector.ok THEN char_vector
        ELSE Ok(Str_new(char_vector.v, mapper.alphabet))

\* StrMappers::new: unwraps char_size(), so it panics on an alphabet too large
StrMappers_new(alphabet) ==
    LET size == Alphabet_char_size(alphabet)
    IN  IF ~size.ok THEN [panic |-> TRUE, v |-> StrMapper_new("U8", alphabet)]
        ELSE [panic |-> FALSE, v |-> StrMapper_new(size.v, alphabet)]

\* StrMappers::new_from_str: Ok(Self::new(..)), so the only failure is new's panic
StrMappers_new_from_str(s) == StrMappers_new(Alphabet_from_str(s))

---------------------------------------------------------------------------
(* patterns.rs *)

\* a mutant of border_fallback: on a mismatch it drops the whole border
\* instead of falling back to the next shorter one
border_fallback_to_zero(p, ba, i, j) ==
    IF j > 0 /\ At(p, i) # At(p, j) THEN 0 ELSE j

\* the while loop of border_array: fall back to shorter borders
RECURSIVE border_fallback(_, _, _, _)
border_fallback(p, ba, i, j) ==
    IF j > 0 /\ At(p, i) # At(p, j) THEN border_fallback(p, ba, i, At(ba, j - 1))
    ELSE j

\* the for loop of border_array, from index i on
RECURSIVE border_loop(_, _, _, _)
border_loop(p, ba, i, j) ==
    IF i >= Len(p) THEN ba
    ELSE LET j1 == border_fallback(p, ba, i, j)
             j2 == IF At(p, i) = At(p, j1) THEN j1 + 1 ELSE j1
         IN  border_loop(p, SetAt(ba, i, j2), i + 1, j2)

border_array(p) ==
    LET m == Str_len(p)
    IN  border_loop(p.char_vector, [k \in 1..m |-> 0], 1, 0)

\* a mutant of strict_loop: the substitution reads a copy of the border
\* array as border_array left it, not the array being updated
RECURSIVE strict_loop_from_original(_, _, _, _)
strict_loop_from_original(p, ba, j, hi) ==
    LET B == border_loop(p, [k \in 1..Len(p) |-> 0], 1, 0)
    IN  IF j >= hi THEN [panic |-> FALSE, v |-> ba]
        ELSE IF ~InRange(ba, j) THEN [panic |-> TRUE, v |-> ba]
        ELSE LET b == At(ba, j)
             IN  IF b > 0 /\ (~InRange(p, b) \/ ~InRange(p, j + 1))
                   THEN [panic |-> TRUE, v |-> ba]
                 ELSE IF b > 0 /\ At(p, b) = At(p, j + 1)
                   THEN IF ~InRange(B, b - 1) THEN [panic |-> TRUE, v |-> ba]
                        ELSE strict_loop_from_original(p, SetAt(ba, j, At(B, b - 1)), j + 1, hi)
                 ELSE strict_loop_from_original(p, ba, j + 1, hi)

\* a mutant of strict_loop: the assignment is the wrong way round,
\* ba[b - 1] = ba[j] for ba[j] = ba[b - 1]
RECURSIVE strict_loop_reversed(_, _, _, _)
strict_loop_reversed(p, ba, j, hi) ==
    IF j >= hi THEN [panic |-> FALSE, v |-> ba]
    ELSE IF ~InRange(ba, j) THEN [panic |-> TRUE, v |-> ba]
    ELSE LET b == At(ba, j)
         IN  IF b > 0 /\ (~InRange(p, b) \/ ~InRange(p, j + 1))
               THEN [panic |-> TRUE, v |-> ba]
             ELSE IF b > 0 /\ At(p, b) = At(p, j + 1)
               THEN IF ~InRange(ba, b - 1) THEN [panic |-> TRUE, v |-> ba]
                    ELSE strict_loop_reversed(p, SetAt(ba, b - 1, At(ba, j)), j + 1, hi)
             ELSE strict_loop_reversed(p, ba, j + 1, hi)

\* a mutant of strict_loop: a border that cannot extend a match is replaced
\* by 0, not by the entry of the shorter border
RECURSIVE strict_loop_to_zero(_, _, _, _)
strict_loop_to_zero(p, ba, j, hi) ==
    IF j >= hi THEN [panic |-> FALSE, v |-> ba]
    ELSE IF ~InRange(ba, j) THEN [panic |-> TRUE, v |-> ba]
    ELSE LET b == At(ba, j)
         IN  IF b > 0 /\ (~InRange(p, b) \/ ~InRange(p, j + 1))
               THEN [panic |-> TRUE, v |-> ba]
             ELSE IF b > 0 /\ At(p, b) = At(p, j + 1)
               THEN strict_loop_to_zero(p, SetAt(ba, j, 0), j + 1, hi)
             ELSE strict_loop_to_zero(p, ba, j + 1, hi)

\* the for loop of strict_border_array, j in lo..hi, on the array ba itself
RECURSIVE strict_loop(_, _, _, _)
strict_loop(p, ba, j, hi) ==
    IF j >= hi THEN [panic |-> FALSE, v |-> ba]
    ELSE IF ~InRange(ba, j) THEN [panic |-> TRUE, v |-> ba]
    ELSE LET b == At(ba, j)
         IN  IF b > 0 /\ (~InRange(p, b) \/ ~InRange(p, j + 1))
               THEN [panic |-> TRUE, v |-> ba]
             ELSE IF b > 0 /\ At(p, b) = At(p, j + 1)
               THEN IF ~InRange(ba, b - 1) THEN [panic |-> TRUE, v |-> ba]
                    ELSE strict_loop(p, SetAt(ba, j, At(ba, b - 1)), j + 1, hi)
             ELSE strict_loop(p, ba, j + 1, hi)

strict_border_array(p) ==
    LET ba == border_array(p)
        hi == usize_sub(Len(ba), 1)
    IN  IF hi.panic THEN [panic |-> TRUE, v |-> ba]
        ELSE strict_loop(p.char_vector, ba, 1, hi.v)

---------------------------------------------------------------------------
(* search/bmh.rs: the bad-character table *)

\* the for loop of build_bad_char_table, i in lo..hi
RECURSIVE bad_char_loop(_, _, _, _)
bad_char_loop(p, t, i, hi) ==
    IF i >= hi THEN [panic |-> FALSE, v |-> t]
    ELSE IF ~InRange(p, i) \/ ~InRange(t, At(p, i)) THEN [panic |-> TRUE, v |-> t]
    ELSE bad_char_loop(p, SetAt(t, At(p, i), Len(p) - i - 1), i + 1, hi)

\* a mutant of build_bad_char_table: the loop runs over the whole pattern,
\* its last position included
build_bad_char_table_whole(p) ==
    LET t0 == [c \in 1..(Alphabet_len(p.alphabet) + 1) |-> Str_len(p)]
    IN  bad_char_loop(p.char_vector, t0, 0, Str_len(p))

build_bad_char_table(p) ==
    LET t0 == [c \in 1..(Alphabet_len(p.alphabet) + 1) |-> Str_len(p)]
        hi == usize_sub(Str_len(p), 1)
    IN  IF hi.panic THEN [panic |-> TRUE, v |-> t0]
        ELSE bad_char_loop(p.char_vector, t0, 0, hi.v)

---------------------------------------------------------------------------
(* The iterators.  kind is what the Box<dyn Iterator> holds: "uncalled"    *)
(* before the entry point ran, "Empty" for std::iter::empty(), the name of *)
(* the search struct, or "panic" when the entry point itself panicked.     *)
(* ret and out belong to the caller: ret is how the latest step of next()  *)
(* ended ("-" before the first, "running" after a pass through the scan    *)
(* loop that did not return, "Some", "None", or "panic"), out the offsets  *)
(* returned so far, iters the passes through the scan loop so far,         *)
(* fallbacks the assignments j = ba[j - 1] made by KMP's mismatch loop.    *)

NoAlphabet == Alphabet_new(<<>>)
NoStr == Str_new(<<>>, NoAlphabet)

NoNaive == [kind |-> "uncalled", x |-> NoStr, p |-> Some(NoStr), i |-> 0,
            ret |-> "-", out |-> <<>>]
NoKMP == [kind |-> "uncalled", x |-> NoStr, p |-> NoStr, ba |-> <<>>,
          x_index |-> 0, p_index |-> 0, ret |-> "-", out |-> <<>>,
          iters |-> 0, fallbacks |-> 0]
NoBMH == [kind |-> "uncalled", x |-> NoStr, p |-> NoStr, i |-> 0,
          bad_char_table |-> <<>>, ret |-> "-", out |-> <<>>, iters |-> 0]

\* the iterator can be advanced: it exists and no panic has unwound it
Live(it, kind) == it.kind = kind /\ it.ret # "panic"

---------------------------------------------------------------------------
(* search/naive.rs *)

\* while k < m && p[k] == x[*i + k] { k += 1 }
RECURSIVE naive_compare(_, _, _, _)
naive_compare(x, p, i, k) ==
    IF k < Len(p)
      THEN IF ~InRange(x, i + k) THEN [panic |-> TRUE, k |-> k]
           ELSE IF At(p, k) = At(x, i + k) THEN naive_compare(x, p, i, k + 1)
           ELSE [panic |-> FALSE, k |-> k]
      ELSE [panic |-> FALSE, k |-> k]

sized_naive(x, p) == [NoNaive EXCEPT !.kind = "NaiveSearch", !.x = x, !.p = p]

\* naive past its guard (lines 98-104), alphabet being Alphabet::from_str(x)
naive_with(alphabet, x, p) ==
    LET xs == Str_from_str("U8", x, alphabet)
    IN  IF ~xs.ok THEN [NoNaive EXCEPT !.kind = "panic"]
        ELSE LET ps == translate_to_this_alphabet("U8", xs.v, p)
             IN  IF ~ps.ok THEN [NoNaive EXCEPT !.kind = "Empty"]
                 ELSE sized_naive(xs.v, Some(ps.v))

\* a mutant of naive: only the text is tested for emptiness
naive_text_guard_only(x, p) ==
    IF is_empty(x) THEN [NoNaive EXCEPT !.kind = "Empty"]
    ELSE naive_with(Alphabet_from_str(x), x, p)

\* naive(x, p): the value of the iterator it returns
naive(x, p) ==
    IF is_empty(x) \/ is_empty(p) THEN [NoNaive EXCEPT !.kind = "Empty"]
    ELSE naive_with(Alphabet_from_str(x), x, p)

\* a mutant of NaiveSearch_step: the scan loop runs while *i < n - m, so
\* the last window is never compared
NaiveSearch_step_exclusive(s) ==
    IF ~s.p.some THEN [s EXCEPT !.ret = "None"]
    ELSE LET x == s.x.char_vector
             p == s.p.v.char_vector
             n == Len(x)
             m == Len(p)
             last == usize_sub(n, m)
         IN  IF last.panic THEN [s EXCEPT !.ret = "panic"]
             ELSE IF s.i < last.v
               THEN LET c == naive_compare(x, p, s.i, 0)
                    IN  IF c.panic THEN [s EXCEPT !.ret = "panic"]
                        ELSE IF c.k = m
                          THEN [s EXCEPT !.i = s.i + 1, !.ret = "Some",
                                         !.out = Append(s.out, (s.i + 1) - 1)]
                        ELSE [s EXCEPT !.i = s.i + 1, !.ret = "running"]
             ELSE [s EXCEPT !.ret = "None"]

\* a mutant of NaiveSearch_step: on leaving the scan loop the cursor is set
\* back to 0, so the iterator starts over after it returned None
NaiveSearch_step_restarting(s) ==
    IF ~s.p.some THEN [s EXCEPT !.ret = "None"]
    ELSE LET x == s.x.char_vector
             p == s.p.v.char_vector
             n == Len(x)
             m == Len(p)
             last == usize_sub(n, m)
         IN  IF last.panic THEN [s EXCEPT !.ret = "panic"]
             ELSE IF s.i <= last.v
               THEN LET c == naive_compare(x, p, s.i, 0)
                    IN  IF c.panic THEN [s EXCEPT !.ret = "panic"]
                        ELSE IF c.k = m
                          THEN [s EXCEPT !.i = s.i + 1, !.ret = "Some",
                                         !.out = Append(s.out, (s.i + 1) - 1)]
                        ELSE [s EXCEPT !.i = s.i + 1, !.ret = "running"]
             ELSE [s EXCEPT !.i = 0, !.ret = "None"]

\* one pass through the scan loop of NaiveSearch::next, or its exit
NaiveSearch_step(s) ==
    IF ~s.p.some THEN [s EXCEPT !.ret = "None"]
    ELSE LET x == s.x.char_vector
             p == s.p.v.char_vector
             n == Len(x)
             m == Len(p)
             last == usize_sub(n, m)
         IN  IF last.panic THEN [s EXCEPT !.ret = "panic"]
             ELSE IF s.i <= last.v
               THEN LET c == naive_compare(x, p, s.i, 0)
                    IN  IF c.panic THEN [s EXCEPT !.ret = "panic"]
                        ELSE IF c.k = m
                          THEN [s EXCEPT !.i = s.i + 1, !.ret = "Some",
                                         !.out = Append(s.out, (s.i + 1) - 1)]
                        ELSE [s EXCEPT !.i = s.i + 1, !.ret = "running"]
             ELSE [s EXCEPT !.ret = "None"]

---------------------------------------------------------------------------
(* search/kmp.rs *)

\* a mutant of kmp_fallback: on a mismatch the pattern index is reset to 0
\* instead of following the border array
kmp_fallback_to_zero(x, p, ba, i, j) ==
    IF j > 0
      THEN IF ~InRange(x, i) \/ ~InRange(p, j) THEN [panic |-> TRUE, j |-> j, steps |-> 0]
           ELSE IF At(x, i) # At(p, j) THEN [panic |-> FALSE, j |-> 0, steps |-> 1]
           ELSE [panic |-> FALSE, j |-> j, steps |-> 0]
      ELSE [panic |-> FALSE, j |-> j, steps |-> 0]

\* while *j > 0 && &x[*i] != &p[*j] { *j = ba[*j - 1] }: the j it ends
\* with and the number of assignments to j (steps)
RECURSIVE kmp_fallback(_, _, _, _, _)
kmp_fallback(x, p, ba, i, j) ==
    IF j > 0
      THEN IF ~InRange(x, i) \/ ~InRange(p, j) THEN [panic |-> TRUE, j |-> j, steps |-> 0]
           ELSE IF At(x, i) # At(p, j)
             THEN IF ~InRange(ba, j - 1) THEN [panic |-> TRUE, j |-> j, steps |-> 0]
                  ELSE LET r == kmp_fallback(x, p, ba, i, At(ba, j - 1))
                       IN  [r EXCEPT !.steps = r.steps + 1]
           ELSE [panic |-> FALSE, j |-> j, steps |-> 0]
      ELSE [panic |-> FALSE, j |-> j, steps |-> 0]

KMPSearch_new(x, p, ba) == [NoKMP EXCEPT !.kind = "KMPSearch", !.x = x, !.p = p, !.ba = ba]

kmp_impl(x, p, mapper) ==
    LET xs == StrMapper_map_str(mapper, x)
    IN  IF ~xs.ok THEN [NoKMP EXCEPT !.kind = "panic"]
        ELSE LET ps == StrMapper_map_str(mapper, p)
             IN  IF ~ps.ok THEN [NoKMP EXCEPT !.kind = "Empty"]
                 ELSE LET ba == strict_border_array(ps.v)
                      IN  IF ba.panic THEN [NoKMP EXCEPT !.kind = "panic"]
                          ELSE KMPSearch_new(xs.v, ps.v, ba.v)

\* kmp past its guards (lines 109-111): the unwrap of the mapper, mapper
\* being StrMappers::new_from_str(x), and kmp_impl
kmp_with(mapper, x, p) ==
    IF mapper.panic THEN [NoKMP EXCEPT !.kind = "panic"]
    ELSE kmp_impl(x, p, mapper.v)

\* kmp(x, p): the value of the iterator it returns
kmp(x, p) ==
    IF is_empty(x) \/ is_empty(p) THEN [NoKMP EXCEPT !.kind = "Empty"]
    ELSE IF str_len(x) < str_len(p) THEN [NoKMP EXCEPT !.kind = "Empty"]
    ELSE kmp_with(StrMappers_new_from_str(x), x, p)

\* a mutant of KMPSearch_step: a pass that finds a mismatch with j > 0 falls
\* back once and leaves the text index where it is
KMPSearch_step_holding(s) ==
    LET x == s.x.char_vector
        p == s.p.char_vector
        i == s.x_index
        j == s.p_index
        t == [s EXCEPT !.iters = s.iters + 1]
    IN  IF i < Len(x)
          THEN IF j > 0 /\ At(x, i) # At(p, j)
                 THEN [t EXCEPT !.p_index = At(s.ba, j - 1),
                                !.fallbacks = s.fallbacks + 1, !.ret = "running"]
               ELSE IF At(x, i) # At(p, j)
                 THEN [t EXCEPT !.x_index = i + 1, !.ret = "running"]
               ELSE IF j + 1 = Len(p)
                 THEN [t EXCEPT !.x_index = i + 1, !.p_index = At(s.ba, j),
                                !.ret = "Some",
                                !.out = Append(s.out, i + 1 - Len(p))]
               ELSE [t EXCEPT !.x_index = i + 1, !.p_index = j + 1,
                              !.ret = "running"]
        ELSE [s EXCEPT !.ret = "None"]

\* one pass through the scan loop of KMPSearch::next, or its exit
KMPSearch_step(s) ==
    LET x == s.x.char_vector
        p == s.p.char_vector
        n == Len(x)
        m == Len(p)
        i == s.x_index
    IN  IF i < n
          THEN LET f == kmp_fallback(x, p, s.ba, i, s.p_index)
                   t == [s EXCEPT !.iters = s.iters + 1,
                                  !.fallbacks = s.fallbacks + f.steps]
               IN  IF f.panic \/ ~InRange(x, i) \/ ~InRange(p, f.j)
                     THEN [t EXCEPT !.ret = "panic"]
                   ELSE LET j == IF At(x, i) = At(p, f.j) THEN f.j + 1 ELSE f.j
                            hit == usize_sub(i + 1, m)
                        IN  IF j = m
                              THEN IF ~InRange(s.ba, j - 1) \/ hit.panic
                                     THEN [t EXCEPT !.ret = "panic"]
                                   ELSE [t EXCEPT !.x_index = i + 1,
                                                  !.p_index = At(s.ba, j - 1),
                                                  !.ret = "Some",
                                                  !.out = Append(s.out, hit.v)]
                            ELSE [t EXCEPT !.x_index = i + 1, !.p_index = j,
                                           !.ret = "running"]
        ELSE [s EXCEPT !.ret = "None"]

---------------------------------------------------------------------------
(* search/bmh.rs: the matcher *)

\* while k > 0 && p[k] == x[*i + k] { k -= 1 }
RECURSIVE bmh_compare(_, _, _, _)
bmh_compare(x, p, i, k) ==
    IF k > 0
      THEN IF ~InRange(p, k) \/ ~InRange(x, i + k) THEN [panic |-> TRUE, k |-> k]
           ELSE IF At(p, k) = At(x, i + k) THEN bmh_compare(x, p, i, k - 1)
           ELSE [panic |-> FALSE, k |-> k]
      ELSE [panic |-> FALSE, k |-> k]

\* bad_char_table[x[at].to_usize()]: the value, or a panic when an index is
\* out of range
bad_char_at(t, x, at) ==
    IF ~InRange(x, at) THEN [panic |-> TRUE, v |-> 0]
    ELSE IF ~InRange(t, At(x, at)) THEN [panic |-> TRUE, v |-> 0]
    ELSE [panic |-> FALSE, v |-> At(t, At(x, at))]

BMHSearch_new(x, p) ==
    LET bad_char_table == build_bad_char_table(p)
    IN  IF bad_char_table.panic THEN [NoBMH EXCEPT !.kind = "panic"]
        ELSE [NoBMH EXCEPT !.kind = "BMHSearch", !.x = x, !.p = p,
                           !.bad_char_table = bad_char_table.v]

bmh_impl(x, p, mapper) ==
    LET xs == StrMapper_map_str(mapper, x)
    IN  IF ~xs.ok THEN [NoBMH EXCEPT !.kind = "panic"]
        ELSE LET ps == StrMapper_map_str(mapper, p)
             IN  IF ~ps.ok THEN [NoBMH EXCEPT !.kind = "Empty"]
                 ELSE BMHSearch_new(xs.v, ps.v)

\* bmh past its guards (lines 109-111): the unwrap of the mapper, mapper
\* being StrMappers::new_from_str(x), and bmh_impl
bmh_with(mapper, x, p) ==
    IF mapper.panic THEN [NoBMH EXCEPT !.kind = "panic"]
    ELSE bmh_impl(x, p, mapper.v)

\* bmh(x, p): the value of the iterator it returns
bmh(x, p) ==
    IF is_empty(x) \/ is_empty(p) THEN [NoBMH EXCEPT !.kind = "Empty"]
    ELSE IF str_len(x) < str_len(p) THEN [NoBMH EXCEPT !.kind = "Empty"]
    ELSE bmh_with(StrMappers_new_from_str(x), x, p)

\* a mutant of bmh_on_match: the window start is returned and the cursor is
\* left where it is
bmh_on_match_stalled(s, x, m) ==
    [s EXCEPT !.ret = "Some", !.out = Append(s.out, s.i)]

\* the branch of BMHSearch::next taken on a full match in the window at i
\* (lines 62-76): the offset returned is read after the first jump
bmh_on_match(s, x, m) ==
    LET jump == bad_char_at(s.bad_char_table, x, s.i)
    IN  IF jump.panic \/ jump.v = 0 THEN [s EXCEPT !.ret = "panic"]
        ELSE LET hit == s.i + jump.v
                 shift == bad_char_at(s.bad_char_table, x, hit + m - 1)
             IN  IF shift.panic THEN [s EXCEPT !.ret = "panic"]
                 ELSE [s EXCEPT !.i = hit + shift.v, !.ret = "Some",
                                !.out = Append(s.out, hit)]

\* a mutant of bmh_on_mismatch: the window moves by the whole pattern length
bmh_on_mismatch_by_length(s, x, m) ==
    [s EXCEPT !.i = s.i + m, !.ret = "running"]

\* the rest of the loop body, taken on a mismatch (lines 78-83)
bmh_on_mismatch(s, x, m) ==
    LET jump == bad_char_at(s.bad_char_table, x, s.i)
        shift == bad_char_at(s.bad_char_table, x, s.i + m - 1)
    IN  IF jump.panic \/ jump.v = 0 \/ shift.panic THEN [s EXCEPT !.ret = "panic"]
        ELSE [s EXCEPT !.i = s.i + shift.v, !.ret = "running"]

\* one pass through the scan loop of BMHSearch::next, or its exit
BMHSearch_step(s) ==
    LET x == s.x.char_vector
        p == s.p.char_vector
        n == Len(x)
        m == Len(p)
        last == usize_sub(n, m)
        k0 == usize_sub(m, 1)
    IN  IF last.panic THEN [s EXCEPT !.ret = "panic"]
        ELSE IF s.i <= last.v
          THEN IF k0.panic THEN [s EXCEPT !.ret = "panic"]
               ELSE LET c == bmh_compare(x, p, s.i, k0.v)
                        t == [s EXCEPT !.iters = s.iters + 1]
                    IN  IF c.panic THEN [t EXCEPT !.ret = "panic"]
                        ELSE IF c.k = 0 /\ (~InRange(p, 0) \/ ~InRange(x, s.i))
                          THEN [t EXCEPT !.ret = "panic"]
                        ELSE IF c.k = 0 /\ At(p, 0) = At(x, s.i)
                          THEN bmh_on_match(t, x, m)
                        ELSE bmh_on_mismatch(t, x, m)
        ELSE [s EXCEPT !.ret = "None"]

---------------------------------------------------------------------------
(* Spec: a caller builds the three iterators over one text and pattern and *)
(* pulls from them.                                                        *)

NotRun == [done |-> FALSE, panic |-> FALSE, v |-> <<>>]

\* no Str was constructed yet
NotMade == [op |-> "-", ok |-> FALSE, v |-> NoStr, err |-> ""]

\* the variables of SpecEnc, where no caller of the encoding layer runs
EncUnused ==
    /\ alpha = NoAlphabet
    /\ src = <<>>
    /\ wd = "U8"
    /\ csize = NotRun
    /\ made = NotMade
    /\ cur = NoStr
    /\ got = NotRun

\* the variables of SpecAlpha, where no alphabet is built from strings
AlphaUnused ==
    /\ strings = <<>>
    /\ a_new = NotRun
    /\ a_from_str = NotRun
    /\ a_from_strs = NotRun

Init ==
    /\ build \in {"debug", "release"}
    /\ text \in Strs(SearchChars, MaxTextLen)
    /\ pat \in Strs(SearchChars, MaxPatLen)
    /\ nv = NoNaive
    /\ km = NoKMP
    /\ bm = NoBMH
    /\ q = NoStr
    /\ qba = NotRun
    /\ qsba = NotRun
    /\ qbct = NotRun
    /\ EncUnused
    /\ AlphaUnused

CallNaive ==
    /\ nv.kind = "uncalled"
    /\ nv' = naive(text, pat)
    /\ UNCHANGED <<build, text, pat, km, bm, q, qba, qsba, qbct, encVars, alphaVars>>

CallKmp ==
    /\ km.kind = "uncalled"
    /\ km' = kmp(text, pat)
    /\ UNCHANGED <<build, text, pat, nv, bm, q, qba, qsba, qbct, encVars, alphaVars>>

CallBmh ==
    /\ bm.kind = "uncalled"
    /\ bm' = bmh(text, pat)
    /\ UNCHANGED <<build, text, pat, nv, km, q, qba, qsba, qbct, encVars, alphaVars>>

NaiveNext ==
    /\ Live(nv, "NaiveSearch")
    /\ nv' = NaiveSearch_step(nv)
    /\ UNCHANGED <<build, text, pat, km, bm, q, qba, qsba, qbct, encVars, alphaVars>>

KmpNext ==
    /\ Live(km, "KMPSearch")
    /\ km' = KMPSearch_step(km)
    /\ UNCHANGED <<build, text, pat, nv, bm, q, qba, qsba, qbct, encVars, alphaVars>>

BmhNext ==
    /\ Live(bm, "BMHSearch")
    /\ bm' = BMHSearch_step(bm)
    /\ UNCHANGED <<build, text, pat, nv, km, q, qba, qsba, qbct, encVars, alphaVars>>

\* std::iter::empty(): next() is None
NaiveEmptyNext ==
    /\ nv.kind = "Empty"
    /\ nv' = [nv EXCEPT !.ret = "None"]
    /\ UNCHANGED <<build, text, pat, km, bm, q, qba, qsba, qbct, encVars, alphaVars>>

KmpEmptyNext ==
    /\ km.kind = "Empty"
    /\ km' = [km EXCEPT !.ret = "None"]
    /\ UNCHANGED <<build, text, pat, nv, bm, q, qba, qsba, qbct, encVars, alphaVars>>

BmhEmptyNext ==
    /\ bm.kind = "Empty"
    /\ bm' = [bm EXCEPT !.ret = "None"]
    /\ UNCHANGED <<build, text, pat, nv, km, q, qba, qsba, qbct, encVars, alphaVars>>

Next ==
    \/ CallNaive
    \/ CallKmp
    \/ CallBmh
    \/ NaiveNext
    \/ KmpNext
    \/ BmhNext
    \/ NaiveEmptyNext
    \/ KmpEmptyNext
    \/ BmhEmptyNext

Spec == Init /\ [][Next]_vars

---------------------------------------------------------------------------
(* SpecPat: a caller builds an alphabet, encodes a pattern over it and     *)
(* hands the Str to border_array, strict_border_array and                  *)
(* build_bad_char_table.                                                   *)

\* some string holding every character of S once
Corpus(S) == CHOOSE s \in [1..Cardinality(S) -> S] : \A c \in S : \E i \in DOMAIN s : s[i] = c

\* the patterns of at most MaxQLen characters, encoded over the alphabet of
\* a corpus that holds all their characters
PatStrs ==
    UNION {{Str_from_str("U8", s, Alphabet_from_str(Corpus(S))).v : s \in Strs(S, MaxQLen)} :
              S \in SUBSET Chars}

InitPat ==
    /\ build \in {"debug", "release"}
    /\ text = <<>>
    /\ pat = <<>>
    /\ nv = NoNaive
    /\ km = NoKMP
    /\ bm = NoBMH
    /\ q \in PatStrs
    /\ qba = NotRun
    /\ qsba = NotRun
    /\ qbct = NotRun
    /\ EncUnused
    /\ AlphaUnused

CallBorderArray ==
    /\ ~qba.done
    /\ qba' = [done |-> TRUE, panic |-> FALSE, v |-> border_array(q)]
    /\ UNCHANGED <<build, text, pat, nv, km, bm, q, qsba, qbct, encVars, alphaVars>>

CallStrictBorderArray ==
    /\ ~qsba.done
    /\ qsba' = [done |-> TRUE] @@ strict_border_array(q)
    /\ UNCHANGED <<build, text, pat, nv, km, bm, q, qba, qbct, encVars, alphaVars>>

CallBuildBadCharTable ==
    /\ ~qbct.done
    /\ qbct' = [done |-> TRUE] @@ build_bad_char_table(q)
    /\ UNCHANGED <<build, text, pat, nv, km, bm, q, qba, qsba, encVars, alphaVars>>

NextPat ==
    \/ CallBorderArray
    \/ CallStrictBorderArray
    \/ CallBuildBadCharTable

SpecPat == InitPat /\ [][NextPat]_vars

---------------------------------------------------------------------------
(* SpecWide: the entry points on texts whose alphabet is at the limit of a *)
(* code width.  The text of N distinct characters is the N Unicode scalar  *)
(* values after U+E000 in ascending order, so Alphabet::from_str of it is  *)
(* known without running the sort: its chars are the text and the k-th of  *)
(* them has the index k.  Such a text is non-empty and longer, in bytes,   *)
(* than every pattern of the model, so the entry points are past their     *)
(* guards.                                                                 *)

\* longest pattern handed to the matchers in SpecWide
MaxWidePatLen == 2

\* the k-th scalar value after U+E000 (the surrogates, which are no chars,
\* end at U+DFFF)
WideChar(k) == 57344 + k

WideText(N) == [k \in 1..N |-> WideChar(k)]

\* Alphabet::from_str(x) for x = WideText(N)
WideAlphabet(x) ==
    [chars |-> x,
     indices |-> [c \in WideChar(1)..WideChar(Len(x)) |-> c - WideChar(0)]]

\* the alphabet sizes on both sides of u8's and of u16's MAX
WideSizes ==
    {Char_MAX("U8"), Char_MAX("U8") + 1, Char_MAX("U16"), Char_MAX("U16") + 1}

\* 'a' is in no wide text, U+E001 and U+E002 are in each
WidePats == Strs({97, WideChar(1), WideChar(2)}, MaxWidePatLen) \ {<<>>}

InitWide ==
    /\ build \in {"debug", "release"}
    /\ text \in {WideText(N) : N \in WideSizes}
    /\ pat \in WidePats
    /\ nv = NoNaive
    /\ km = NoKMP
    /\ bm = NoBMH
    /\ q = NoStr
    /\ qba = NotRun
    /\ qsba = NotRun
    /\ qbct = NotRun
    /\ EncUnused
    /\ AlphaUnused

CallNaiveWide ==
    /\ nv.kind = "uncalled"
    /\ nv' = naive_with(WideAlphabet(text), text, pat)
    /\ UNCHANGED <<build, text, pat, km, bm, q, qba, qsba, qbct, encVars, alphaVars>>

CallKmpWide ==
    /\ km.kind = "uncalled"
    /\ km' = kmp_with(StrMappers_new(WideAlphabet(text)), text, pat)
    /\ UNCHANGED <<build, text, pat, nv, bm, q, qba, qsba, qbct, encVars, alphaVars>>

CallBmhWide ==
    /\ bm.kind = "uncalled"
    /\ bm' = bmh_with(StrMappers_new(WideAlphabet(text)), text, pat)
    /\ UNCHANGED <<build, text, pat, nv, km, q, qba, qsba, qbct, encVars, alphaVars>>

NextWide ==
    \/ CallNaiveWide
    \/ CallKmpWide
    \/ CallBmhWide

SpecWide == InitWide /\ [][NextWide]_vars

---------------------------------------------------------------------------

(* SpecEnc: a caller of the encoding layer.  It holds an alphabet,         *)
(* constructs a Str<Char> with one of the constructors (Str::new,          *)
(* Str::from_str, StrMapper::map_str, translate_to_this_alphabet), and     *)
(* reads and writes the Str through Index and IndexMut.  A panic (an index *)
(* out of range) ends the caller.                                          *)
(* SpecWidth: a caller that asks an alphabet for its char_size and encodes *)
(* a string over it at a width of its choice, the alphabets at the limits  *)
(* of u16 included.                                                        *)

\* longest &str handed to a constructor, and longest Vec handed to Str::new
MaxSrcLen == 2

\* the characters of the strings to encode: 'a' and 'b', which the wide
\* alphabets lack, and U+E001, which the small ones lack
EncChars == {97, 98, WideChar(1)}

\* the codes a caller hands to Str::new and writes through IndexMut: the
\* sentinel, a code of most alphabets and a code of none of the small ones
WrittenCodes == {0, 1, 4}

\* the alphabets of the corpora over Chars and the ones at the limit of u8
EncAlphabets ==
    {Alphabet_from_str(Corpus(S)) : S \in SUBSET Chars} \cup
    {WideAlphabet(WideText(N)) : N \in {Char_MAX("U8"), Char_MAX("U8") + 1}}

\* the same and the ones at the limit of u16
WidthAlphabets == EncAlphabets \cup {WideAlphabet(WideText(N)) : N \in WideSizes}

SearchUnused ==
    /\ build = "debug"
    /\ text = <<>>
    /\ pat = <<>>
    /\ nv = NoNaive
    /\ km = NoKMP
    /\ bm = NoBMH
    /\ q = NoStr
    /\ qba = NotRun
    /\ qsba = NotRun
    /\ qbct = NotRun

InitWidth ==
    /\ SearchUnused
    /\ AlphaUnused
    /\ alpha \in WidthAlphabets
    /\ src \in Strs(EncChars, MaxSrcLen)
    /\ wd \in {"U8", "U16"}
    /\ csize = NotRun
    /\ made = NotMade
    /\ cur = NoStr
    /\ got = NotRun

InitEnc ==
    /\ SearchUnused
    /\ AlphaUnused
    /\ alpha \in EncAlphabets
    /\ src \in Strs(EncChars, MaxSrcLen)
    /\ wd \in {"U8", "U16"}
    /\ csize = NotRun
    /\ made = NotMade
    /\ cur = NoStr
    /\ got = NotRun

\* what the caller holds after a constructor returned r: made remembers the
\* Result, cur is the Str of an Ok
Constructed(op, r) ==
    /\ made' = [op |-> op, ok |-> r.ok, v |-> IF r.ok THEN r.v ELSE NoStr, err |-> r.err]
    /\ cur' = IF r.ok THEN r.v ELSE NoStr

CallCharSize ==
    /\ ~got.panic /\ ~csize.done
    /\ csize' = [done |-> TRUE, panic |-> FALSE, v |-> Alphabet_char_size(alpha)]
    /\ UNCHANGED <<searchVars, alphaVars, alpha, src, wd, made, cur, got>>

CallStrFromStr ==
    /\ ~got.panic /\ made.op = "-"
    /\ Constructed("from_str", Str_from_str(wd, src, alpha))
    /\ UNCHANGED <<searchVars, alphaVars, alpha, src, wd, csize, got>>

CallMapStr ==
    /\ ~got.panic /\ made.op = "-"
    /\ Constructed("map_str", StrMapper_map_str(StrMapper_new(wd, alpha), src))
    /\ UNCHANGED <<searchVars, alphaVars, alpha, src, wd, csize, got>>

CallStrNew ==
    /\ ~got.panic /\ made.op = "-"
    /\ \E x \in Strs(WrittenCodes, MaxSrcLen) : Constructed("new", Ok(Str_new(x, alpha)))
    /\ UNCHANGED <<searchVars, alphaVars, alpha, src, wd, csize, got>>

\* cur.translate_to_this_alphabet(src): a second Str over the alphabet of cur
CallTranslate ==
    /\ ~got.panic /\ made.op \in {"from_str", "map_str", "new"} /\ made.ok
    /\ Constructed("translate", translate_to_this_alphabet(wd, cur, src))
    /\ UNCHANGED <<searchVars, alphaVars, alpha, src, wd, csize, got>>

\* cur[i]
CallIndex ==
    /\ ~got.panic /\ made.ok
    /\ \E i \in 0..MaxSrcLen :
          got' = IF InRange(cur.char_vector, i)
                   THEN [done |-> TRUE, panic |-> FALSE, v |-> At(cur.char_vector, i)]
                 ELSE [done |-> TRUE, panic |-> TRUE, v |-> 0]
    /\ UNCHANGED <<searchVars, alphaVars, alpha, src, wd, csize, made, cur>>

\* cur[i] = c
CallIndexMut ==
    /\ ~got.panic /\ made.ok
    /\ \E i \in 0..MaxSrcLen, c \in WrittenCodes :
          IF InRange(cur.char_vector, i)
            THEN /\ cur' = [cur EXCEPT !.char_vector = SetAt(@, i, c)]
                 /\ got' = got
          ELSE /\ got' = [done |-> TRUE, panic |-> TRUE, v |-> 0]
               /\ cur' = cur
    /\ UNCHANGED <<searchVars, alphaVars, alpha, src, wd, csize, made>>

NextWidth ==
    \/ CallCharSize
    \/ CallStrFromStr
    \/ CallMapStr

SpecWidth == InitWidth /\ [][NextWidth]_vars

NextEnc ==
    \/ CallStrFromStr
    \/ CallMapStr
    \/ CallStrNew
    \/ CallTranslate
    \/ CallIndex
    \/ CallIndexMut

SpecEnc == InitEnc /\ [][NextEnc]_vars

---------------------------------------------------------------------------

(* SpecAlpha: a caller builds an alphabet from some strings with each of   *)
(* the three constructors: Alphabet::new on their characters, from_str on  *)
(* their concatenation, from_strs on the strings.                          *)

\* most strings handed to from_strs
MaxStrings == 2
\* longest of them, in characters
MaxStrLen == 2

InitAlpha ==
    /\ SearchUnused
    /\ EncUnused
    /\ strings \in Strs(Strs(Chars, MaxStrLen), MaxStrings)
    /\ a_new = NotRun
    /\ a_from_str = NotRun
    /\ a_from_strs = NotRun

CallAlphabetNew ==
    /\ ~a_new.done
    /\ a_new' = [done |-> TRUE, panic |-> FALSE, v |-> Alphabet_new(chars_of_strs(strings))]
    /\ UNCHANGED <<searchVars, encVars, strings, a_from_str, a_from_strs>>

CallAlphabetFromStr ==
    /\ ~a_from_str.done
    /\ a_from_str' = [done |-> TRUE, panic |-> FALSE,
                      v |-> Alphabet_from_str(chars_of_strs(strings))]
    /\ UNCHANGED <<searchVars, encVars, strings, a_new, a_from_strs>>

CallAlphabetFromStrs ==
    /\ ~a_from_strs.done
    /\ a_from_strs' = [done |-> TRUE, panic |-> FALSE, v |-> Alphabet_from_strs(strings)]
    /\ UNCHANGED <<searchVars, encVars, strings, a_new, a_from_str>>

NextAlpha ==
    \/ CallAlphabetNew
    \/ CallAlphabetFromStr
    \/ CallAlphabetFromStrs

SpecAlpha == InitAlpha /\ [][NextAlpha]_vars

---------------------------------------------------------------------------

(* What the claims speak of, defined on the raw text and pattern *)

\* the set of values of the sequence s
Elems(s) == {s[k] : k \in 1..Len(s)}

\* s is strictly ascending (so it has no duplicates)
Ascending(s) == \A a, b \in 1..Len(s) : a < b => s[a] < s[b]

\* P stands in T at the character offset i
MatchAt(T, P, i) == i + Len(P) <= Len(T) /\ \A k \in 1..Len(P) : T[i + k] = P[k]

\* the offsets of all occurrences of P in T, overlapping ones included
Occ(T, P) == {i \in 0..(Len(T) - Len(P)) : MatchAt(T, P, i)}

\* s lists exactly the occurrences of pat in text, in ascending order
ListsOcc(s) == Ascending(s) /\ Elems(s) = Occ(text, pat)

\* P has a border of length k: a proper prefix that is also a suffix
HasBorder(P, k) == k < Len(P) /\ SubSeq(P, 1, k) = SubSeq(P, Len(P) - k + 1, Len(P))

\* the length of the longest border of p[0..=i]
BruteBorder(p, i) ==
    LET w == SubSeq(p, 1, i + 1)
    IN  CHOOSE k \in 0..i : HasBorder(w, k) /\ \A l \in 0..i : HasBorder(w, l) => l <= k

\* non-empty text and pattern, the pattern no longer than the text (in characters)
NonEmptyFit == text # <<>> /\ pat # <<>> /\ Len(pat) <= Len(text)

---------------------------------------------------------------------------
(* The claims *)

\* C1: for non-empty T and P with |P| <= |T| whose characters all occur in
\* T, kmp(T, P) never panics and, once it has returned None, the offsets it
\* returned are exactly the occurrences of P in T, ascending, overlapping
\* ones included.
C1_KmpListsOccurrences ==
    (NonEmptyFit /\ Elems(pat) \subseteq Elems(text)) =>
        /\ km.kind # "panic" /\ km.ret # "panic"
        /\ km.ret = "None" => ListsOcc(km.out)

\* C1 witness: an exhausted KMP scan that returned two overlapping occurrences
C1_Witness ==
    /\ NonEmptyFit /\ Elems(pat) \subseteq Elems(text)
    /\ km.kind = "KMPSearch" /\ km.ret = "None"
    /\ \E a \in 1..Len(km.out) - 1 : km.out[a + 1] - km.out[a] < Len(pat)
    /\ Len(pat) >= 3

\* C2: for non-empty T and P with |P| <= |T|, naive(T, P) never panics and,
\* once it has returned None, the offsets it returned are exactly the
\* offsets i in 0..=|T|-|P| with P = T[i..i+|P|], ascending, no duplicates.
C2_NaiveListsOccurrences ==
    NonEmptyFit =>
        /\ nv.kind # "panic" /\ nv.ret # "panic"
        /\ nv.ret = "None" => ListsOcc(nv.out)

\* C2 witness: an exhausted naive scan that returned at least two offsets
\* and skipped at least one window
C2_Witness ==
    /\ NonEmptyFit
    /\ nv.kind = "NaiveSearch" /\ nv.ret = "None"
    /\ Len(nv.out) >= 2 /\ Len(nv.out) < nv.i

\* C3: for a pattern of length m >= 1, border_array has length m and entry i
\* is the length of the longest proper prefix of p[0..=i] that is also its
\* suffix; B[0] = 0 and 0 <= B[i] <= i.
C3_BorderArrayIsLongestBorder ==
    (qba.done /\ Str_len(q) >= 1) =>
        /\ Len(qba.v) = Str_len(q)
        /\ At(qba.v, 0) = 0
        /\ \A i \in 0..Str_len(q) - 1 :
              /\ At(qba.v, i) = BruteBorder(q.char_vector, i)
              /\ 0 <= At(qba.v, i) /\ At(qba.v, i) <= i

\* C3 witness: a border array whose construction fell back to a shorter,
\* non-empty border
C3_Witness ==
    /\ qba.done
    /\ \E i \in 1..Str_len(q) - 1 :
          /\ At(qba.v, i - 1) >= 2
          /\ At(qba.v, i) > 0
          /\ At(qba.v, i) <= At(qba.v, i - 1)

\* C4: every offset h returned by the BMH matcher on 1 <= |P| <= |T| is a
\* window start with h <= |T|-|P| and T[h..h+|P|] = P.
C4_BmhHitsAreOccurrences ==
    NonEmptyFit => \A h \in Elems(bm.out) : h <= Len(text) - Len(pat) /\ MatchAt(text, pat, h)

\* C5: for non-empty T and P with |P| <= |T| where P has no non-empty
\* border, bmh, kmp and naive pulled to exhaustion return the same offsets.
C5_ThreeWayAgreement ==
    (/\ NonEmptyFit
     /\ \A k \in 1..Len(pat) - 1 : ~HasBorder(pat, k)
     /\ nv.ret = "None" /\ km.ret = "None" /\ bm.ret = "None") =>
        bm.out = km.out /\ km.out = nv.out

\* the rightmost index k in 0..m-2 with p[k] = c
Rightmost(p, c) ==
    CHOOSE k \in 0..Len(p) - 2 : At(p, k) = c /\ \A l \in 0..Len(p) - 2 : At(p, l) = c => l <= k

\* C6: for a non-empty pattern of length m over an alphabet of N symbols,
\* build_bad_char_table returns N+1 entries, entry c being m-1-k for the
\* rightmost k in 0..m-2 with p[k] = c, or m when c is not in p[0..m-1).
C6_BadCharTable ==
    (qbct.done /\ Str_len(q) >= 1) =>
        LET p == q.char_vector
            m == Len(p)
            N == Alphabet_len(q.alphabet)
        IN  /\ ~qbct.panic
            /\ Len(qbct.v) = N + 1
            /\ \A c \in 0..N :
                  At(qbct.v, c) =
                      IF \E k \in 0..m - 2 : At(p, k) = c THEN m - 1 - Rightmost(p, c) ELSE m

\* C6 witness: a table for a pattern whose last character stands nowhere
\* else in it, with another character standing twice before the last place
C6_Witness ==
    /\ qbct.done /\ ~qbct.panic /\ Str_len(q) >= 3
    /\ LET p == q.char_vector
           m == Len(p)
       IN  /\ \A k \in 0..m - 2 : At(p, k) # At(p, m - 1)
           /\ \E k, l \in 0..m - 2 : k # l /\ At(p, k) = At(p, l)
           /\ Alphabet_len(q.alphabet) = 3

\* position j of the strict border array is substituted: 1 <= j <= len-2,
\* b = B[j] > 0 and p[b] = p[j+1], B the border array
Substituted(p, B, j) ==
    /\ 1 <= j /\ j <= Len(B) - 2
    /\ At(B, j) > 0
    /\ At(p, At(B, j)) = At(p, j + 1)

\* C7 as claimed: the substitution at j reads the original border array, so
\* the result at j is B[B[j]-1] and every other entry is B[j].
C7_ReadsOriginal ==
    (qsba.done /\ ~qsba.panic) =>
        LET B == border_array(q)
        IN  \A j \in 0..Len(B) - 1 :
               At(qsba.v, j) =
                   IF Substituted(q.char_vector, B, j) THEN At(B, At(B, j) - 1) ELSE At(B, j)

\* C7 as amended: the substitution at j reads the array as the substitutions
\* at smaller positions left it, so the result at j is the result at
\* B[j]-1; every other entry is B[j].
C7_ReadsUpdated ==
    (qsba.done /\ ~qsba.panic) =>
        LET B == border_array(q)
        IN  \A j \in 0..Len(B) - 1 :
               At(qsba.v, j) =
                   IF Substituted(q.char_vector, B, j) THEN At(qsba.v, At(B, j) - 1) ELSE At(B, j)

\* C7 witness: a substituted position whose source entry had itself been
\* substituted to another value
C7_Witness ==
    /\ qsba.done /\ ~qsba.panic
    /\ LET B == border_array(q)
       IN  \E j \in 0..Len(B) - 1 :
              /\ Substituted(q.char_vector, B, j)
              /\ At(qsba.v, At(B, j) - 1) # At(B, At(B, j) - 1)

\* C8: for a non-empty pattern, strict_border_array has the length of
\* border_array and 0 <= strict[i] <= border[i] <= i at every index.
C8_StrictDominated ==
    (qsba.done /\ Str_len(q) >= 1) =>
        LET B == border_array(q)
        IN  /\ ~qsba.panic
            /\ Len(qsba.v) = Len(B)
            /\ \A i \in 0..Len(B) - 1 :
                  0 <= At(qsba.v, i) /\ At(qsba.v, i) <= At(B, i) /\ At(B, i) <= i

\* C8 witness: a strict border array that is smaller than the border array
\* at one index and equal to it, non-zero, at another
C8_Witness ==
    /\ qsba.done /\ ~qsba.panic
    /\ LET B == border_array(q)
       IN  /\ \E i \in 0..Len(B) - 1 : At(qsba.v, i) < At(B, i)
           /\ \E i \in 0..Len(B) - 2 : At(qsba.v, i) = At(B, i) /\ At(B, i) > 0

\* C9: when the pattern is longer than the non-empty text, naive returns
\* nothing and does not panic.
C9_NaiveLongPattern ==
    (text # <<>> /\ Len(pat) > Len(text)) =>
        nv.kind # "panic" /\ nv.ret # "panic" /\ nv.out = <<>>

\* C10: when the pattern has more characters than the text, kmp and bmh
\* return nothing and do not panic, whatever the byte lengths are.
C10_KmpBmhLongPattern ==
    Len(pat) > Len(text) =>
        /\ km.kind # "panic" /\ km.ret # "panic" /\ km.out = <<>>
        /\ bm.kind # "panic" /\ bm.ret # "panic" /\ bm.out = <<>>

\* the iterator it is std::iter::empty() (or not yet built): no Str was
\* encoded for it, it returned no offset and no step of it panicked
NothingBuilt(it) ==
    /\ it.kind \in {"uncalled", "Empty"}
    /\ it.ret \in {"-", "None"}
    /\ it.out = <<>>
    /\ it.x = NoStr

\* C11: when the text or the pattern is empty, each of naive, kmp and bmh
\* returns the empty iterator: every advance returns None, no alphabet, Str,
\* border array or bad-character table is built, and nothing panics.
C11_EmptyInput ==
    (text = <<>> \/ pat = <<>>) =>
        /\ NothingBuilt(nv) /\ nv.p = Some(NoStr)
        /\ NothingBuilt(km) /\ km.p = NoStr /\ km.ba = <<>>
        /\ NothingBuilt(bm) /\ bm.p = NoStr /\ bm.bad_char_table = <<>>

\* C11 witness: the three entry points were called on a non-empty text and
\* an empty pattern and each iterator was advanced
C11_Witness ==
    /\ text # <<>> /\ pat = <<>>
    /\ nv.kind = "Empty" /\ nv.ret = "None"
    /\ km.kind = "Empty" /\ km.ret = "None"
    /\ bm.kind = "Empty" /\ bm.ret = "None"

WideTextSymbols == Alphabet_len(WideAlphabet(text))

\* C13: when the text has more distinct characters than a u16 code can
\* index (more than u16's MAX, 65534), naive, kmp and bmh return the empty
\* iterator; none of them panics.
C13_TooLargeIsEmpty ==
    WideTextSymbols > Char_MAX("U16") =>
        /\ nv.kind \in {"uncalled", "Empty"}
        /\ km.kind \in {"uncalled", "Empty"}
        /\ bm.kind \in {"uncalled", "Empty"}

\* map_char at the width W accepts the alphabet a: it does not fail with
\* the alphabet being too large for W
MapCharAccepts(a, W) == map_char(a, W, 97).err # "Alphabet too large for Char type"

\* C14: char_size of an alphabet of N symbols is U8 for N <= 254, U16 for
\* 255 <= N <= 65534 and an error for N >= 65535; it is Ok(W) exactly when
\* map_char at W accepts the alphabet and map_char at no narrower width does.
C14_WidthSelection ==
    csize.done =>
        LET N == Alphabet_len(alpha)
            r == csize.v
        IN  /\ N <= u8_MAX - 1 => r.ok /\ r.v = "U8"
            /\ (u8_MAX <= N /\ N <= u16_MAX - 1) => r.ok /\ r.v = "U16"
            /\ N >= u16_MAX => ~r.ok
            /\ (r.ok /\ r.v = "U8") <=> MapCharAccepts(alpha, "U8")
            /\ (r.ok /\ r.v = "U16") <=>
                  (MapCharAccepts(alpha, "U16") /\ ~MapCharAccepts(alpha, "U8"))

\* the alphabet a is the one of the character set S: its N = |S| symbols
\* have exactly the codes 1..N, in ascending character order, and a
\* character has an index exactly when it is in S
IsAlphabetOf(a, S) ==
    LET N == Cardinality(S)
    IN  /\ Alphabet_len(a) = N
        /\ \A c \in Chars : Alphabet_index(a, c).some <=> c \in S
        /\ {Alphabet_index(a, c).v : c \in S} = 1..N
        /\ \A c, d \in S : c < d => Alphabet_index(a, c).v < Alphabet_index(a, d).v
        /\ a.indices = [c \in S |-> Cardinality({d \in S : d <= c})]

AbsentAt(a, s) == {k \in 1..Len(s) : ~Alphabet_contains(a, s[k])}

\* the first of them
FirstAbsent(a, s) == CHOOSE k \in AbsentAt(a, s) : \A l \in AbsentAt(a, s) : k <= l

\* what the constructor op returns for the string s over alpha at the width wd
Encode(op, s) ==
    IF op = "from_str" THEN Str_from_str(wd, s, alpha)
    ELSE StrMapper_map_str(StrMapper_new(wd, alpha), s)

\* C16: over an alphabet that fits the width, encoding a string that holds
\* a character absent from the alphabet fails, and the error value tells
\* which character it was and where it stands: a string whose first absent
\* character or its place is another one gets another error value.
C16_ErrorNamesCharacter ==
    (/\ made.op \in {"from_str", "map_str"}
     /\ Alphabet_len(alpha) <= Char_MAX(wd)
     /\ AbsentAt(alpha, src) # {}) =>
        /\ ~made.ok
        /\ \A s \in Strs(EncChars, MaxSrcLen) :
              (/\ AbsentAt(alpha, s) # {}
               /\ <<FirstAbsent(alpha, s), s[FirstAbsent(alpha, s)]>> #
                     <<FirstAbsent(alpha, src), src[FirstAbsent(alpha, src)]>>) =>
                  Encode(made.op, s).err # made.err

\* C17: Str::from_str and StrMapper::map_str at the width W over an
\* alphabet of N symbols return an error, and no Str, exactly when N is
\* greater than W's MAX or the string holds a character absent from the
\* alphabet; otherwise they return a Str over the alphabet with one code
\* per character, the k-th being the index of the k-th character.
C17_EncodeFailsExactlyWhen ==
    made.op \in {"from_str", "map_str"} =>
        /\ ~made.ok <=> (Alphabet_len(alpha) > Char_MAX(wd) \/ AbsentAt(alpha, src) # {})
        /\ made.ok =>
              /\ made.v.alphabet = alpha
              /\ Len(made.v.char_vector) = Len(src)
              /\ \A k \in 1..Len(src) :
                    made.v.char_vector[k] = Alphabet_index(alpha, src[k]).v

\* every code of the Str s is the index of a symbol of its alphabet
CodesValid(s) ==
    \A k \in 1..Len(s.char_vector) :
        1 <= s.char_vector[k] /\ s.char_vector[k] <= Alphabet_len(s.alphabet)

\* C18: whatever public operations of Str a caller runs (Str::new,
\* Str::from_str, translate_to_this_alphabet, StrMapper::map_str, Index,
\* IndexMut), every code of the Str it holds lies in 1..=N, N the number of
\* symbols of its alphabet, and the Str has the codes and the length it
\* was constructed with.
C18_StrInvariant ==
    made.ok =>
        /\ CodesValid(cur)
        /\ cur.char_vector = made.v.char_vector
        /\ Str_len(cur) = Str_len(made.v)

\* C19: once next() of a matcher's iterator has returned None, every later
\* next() returns None again and leaves the iterator as it is: the cursor
\* does not move and no offset is returned, for naive, kmp and bmh.
C19_ExhaustedStaysExhausted ==
    [][/\ nv.ret = "None" => nv' = nv
       /\ km.ret = "None" => km' = km
       /\ bm.ret = "None" => bm' = bm]_vars

\* C19 witness: the three scans ran to their end, each having moved its
\* cursor and naive and kmp having returned an offset, and returned None
C19_Witness ==
    /\ nv.kind = "NaiveSearch" /\ nv.ret = "None" /\ nv.i > 0 /\ nv.out # <<>>
    /\ km.kind = "KMPSearch" /\ km.ret = "None" /\ km.x_index > 0 /\ km.out # <<>>
    /\ bm.kind = "BMHSearch" /\ bm.ret = "None" /\ bm.i > 0

\* C20: the offsets one iterator returns over its successive next() calls
\* are strictly increasing, for naive, kmp and bmh: every offset is greater
\* than all the offsets returned before it.
C20_OffsetsIncrease ==
    /\ Ascending(nv.out)
    /\ Ascending(km.out)
    /\ Ascending(bm.out)

\* C20 witness: each of the three iterators has returned at least two
\* offsets, naive and kmp three
C20_Witness ==
    /\ Len(nv.out) >= 3
    /\ Len(km.out) >= 3
    /\ Len(bm.out) >= 2


\* C21: after the BMH matcher returns a match found in the window at i, the
\* next window it examines starts at i + |pattern|; hence two offsets
\* returned by one scan differ by at least |pattern|.
C21_AdvanceByPatternLength ==
    [][/\ (BmhNext /\ bm'.ret = "Some") =>
              bm'.i = bm.i + Str_len(bm.p)
       /\ \A a \in 1..Len(bm'.out) : \A b \in 1..Len(bm'.out) :
              a < b => bm'.out[b] - bm'.out[a] >= Len(pat)]_vars


\* C22: on a mismatch the BMH matcher moves the window start by the
\* bad-character table value of the text character under the pattern's last
\* position, and no offset strictly between the old and the new window start
\* is the start of an occurrence of the pattern in the text.
C22_MismatchShiftSkipsNothing ==
    [][(BmhNext /\ bm'.ret = "running") =>
          /\ bm'.i = bm.i + At(bm.bad_char_table,
                               At(bm.x.char_vector, bm.i + Str_len(bm.p) - 1))
          /\ \A o \in (bm.i + 1)..(bm'.i - 1) : ~MatchAt(text, pat, o)]_vars

\* C22 witness: the scan has only seen mismatches so far, has moved its
\* window by at least two positions, and an occurrence lies at or after the
\* window it reached
C22_Witness ==
    /\ Live(bm, "BMHSearch")
    /\ bm.ret = "running"
    /\ bm.out = <<>>
    /\ bm.i >= 2
    /\ \E o \in Occ(text, pat) : o >= bm.i


\* C23: in a BMH scan over a text of n characters and a pattern of m
\* characters with 1 <= m <= n, no next() call fails with an out-of-range
\* access to the text or to the bad-character table.
C23_BmhNeverOutOfRange ==
    NonEmptyFit => bm.kind # "panic" /\ bm.ret # "panic"


\* C24: for a non-empty pattern of length m every entry of the
\* bad-character table lies in 1..m, so in every pass through the BMH scan
\* loop that does not fail the jump read is not 0 and the window start
\* strictly increases, and a scan over n characters makes at most n-m+1
\* passes.
C24_BmhProgress ==
    [][BmhNext =>
          /\ \A c \in DOMAIN bm.bad_char_table :
                 bm.bad_char_table[c] \in 1..Str_len(bm.p)
          /\ bm'.ret \in {"Some", "running"} =>
                 /\ bad_char_at(bm.bad_char_table, bm.x.char_vector, bm.i).v # 0
                 /\ bm'.i > bm.i
          /\ bm'.ret # "panic" =>
                 bm'.iters <= Str_len(bm.x) - Str_len(bm.p) + 1]_vars

\* C24 witness: a scan that did not fail has ended after n-m+1 passes, three
\* or more, over a table with two different entries
C24_Witness ==
    /\ Live(bm, "BMHSearch")
    /\ bm.ret = "None"
    /\ bm.iters >= 3
    /\ bm.iters = Str_len(bm.x) - Str_len(bm.p) + 1
    /\ \E c, d \in DOMAIN bm.bad_char_table :
           bm.bad_char_table[c] # bm.bad_char_table[d]


\* the first k characters of p are the k characters of x that end before
\* index i
PrefixEndsAt(x, p, k, i) ==
    k <= i /\ \A l \in 1..k : p[l] = x[i - k + l]

\* the KMP cursor (i, j) of a scan of x for p is in its range and j is the
\* longest proper prefix of p that ends at i
KmpCursorOk(s) ==
    LET x == s.x.char_vector
        p == s.p.char_vector
        i == s.x_index
        j == s.p_index
    IN  /\ j < Len(p)
        /\ j <= i
        /\ i <= Len(x)
        /\ PrefixEndsAt(x, p, j, i)
        /\ \A k \in (j + 1)..(Len(p) - 1) : ~PrefixEndsAt(x, p, k, i)

\* C25: the KMP scan starts at (i, j) = (0, 0); at the top of every pass
\* through the scan loop and at every return from next(), j < m,
\* j <= i <= n and j is the largest k < m with pattern[0..k) = text[i-k..i);
\* next() never fails on a read of pattern[j], and never changes the border
\* array.
C25_KmpCursorInvariant ==
    [][/\ (CallKmp /\ km'.kind = "KMPSearch") =>
              km'.x_index = 0 /\ km'.p_index = 0
       /\ KmpNext =>
              /\ KmpCursorOk(km)
              /\ km'.ret # "panic"
              /\ KmpCursorOk(km')
              /\ km'.ba = km.ba]_vars

\* C25 witness: after a match was returned the scan went on from a border of
\* the pattern and holds a prefix of two or more characters again
C25_Witness ==
    /\ Live(km, "KMPSearch")
    /\ km.ret = "running"
    /\ km.out # <<>>
    /\ km.p_index >= 2
    /\ km.x_index < Str_len(km.x)


\* C26: in a KMP scan the text index never decreases and grows by exactly
\* one in every pass through the scan loop; the number of fallback steps
\* j = B[j-1] made by the mismatch loop so far never exceeds the text index;
\* the scan returns None after exactly n passes and at most n fallbacks.
C26_KmpLinear ==
    [][KmpNext =>
          /\ km'.ret \in {"Some", "running"} =>
                 km'.x_index = km.x_index + 1 /\ km'.iters = km.iters + 1
          /\ km'.ret = "None" =>
                 /\ km'.x_index = km.x_index
                 /\ km'.iters = Str_len(km.x)
                 /\ km'.fallbacks <= Str_len(km.x)
          /\ km'.fallbacks <= km.x_index
          /\ km'.ret # "panic"]_vars

\* C26 witness: a scan that returned an offset has ended and its mismatch
\* loop fell back three times or more
C26_Witness ==
    /\ Live(km, "KMPSearch")
    /\ km.ret = "None"
    /\ km.iters = Str_len(km.x)
    /\ km.fallbacks >= 3
    /\ km.out # <<>>


\* the lengths k >= 1 of the borders of p[0..=i] whose following character
\* p[k] differs from p[i+1]
StrictBorders(p, i) ==
    {k \in 1..i : HasBorder(SubSeq(p, 1, i + 1), k) /\ At(p, k) # At(p, i + 1)}

\* C27: for a pattern p of length m >= 1 and every index i <= m-2, an entry
\* s = strict_border_array(p)[i] > 0 has p[s] # p[i+1], and the entry is the
\* length of the longest border of p[0..=i] whose following character
\* differs from p[i+1], 0 when there is none; the last entry equals
\* border_array(p)[m-1].
C27_StrictBorderMeaning ==
    (qsba.done /\ Str_len(q) >= 1) =>
        LET p == q.char_vector
            m == Len(p)
        IN  /\ ~qsba.panic
            /\ \A i \in 0..m - 2 :
                  LET s == At(qsba.v, i)
                  IN  /\ s > 0 => At(p, s) # At(p, i + 1)
                      /\ s \in StrictBorders(p, i) \cup {0}
                      /\ \A k \in StrictBorders(p, i) : k <= s
            /\ At(qsba.v, m - 1) = At(border_array(q), m - 1)

\* C27 witness: an entry before the last that is a non-empty border shorter
\* than the longest one, and a last entry that is not 0
C27_Witness ==
    /\ qsba.done /\ ~qsba.panic
    /\ LET B == border_array(q)
       IN  /\ \E i \in 0..Len(B) - 2 : 0 < At(qsba.v, i) /\ At(qsba.v, i) < At(B, i)
           /\ At(qsba.v, Len(B) - 1) > 0


\* C28: strict_border_array returns an array of the length of its pattern
\* for every pattern: the empty array for the empty pattern, without an
\* underflow of len - 1 and without a panic, and [0] for a pattern of one
\* character.
C28_StrictSameLength ==
    qsba.done =>
        /\ ~qsba.panic
        /\ Len(qsba.v) = Str_len(q)
        /\ Str_len(q) = 1 => qsba.v = <<0>>


\* xs and ps, the encoded text and pattern, have the lengths of text and pat
\* and equal codes exactly where these have equal characters, at any two
\* positions of either string
SameEqualities(xs, ps) ==
    LET codes == xs.char_vector \o ps.char_vector
        chars == text \o pat
    IN  /\ Len(xs.char_vector) = Len(text)
        /\ Len(ps.char_vector) = Len(pat)
        /\ \A a, b \in 1..Len(chars) : codes[a] = codes[b] <=> chars[a] = chars[b]

\* C29: the text and the pattern that a matcher encoded against the alphabet
\* of the text have equal codes at two positions if and only if they have
\* equal characters there; hence the encoded pattern occurs in the encoded
\* text at exactly the character offsets where the pattern occurs in the
\* text.
C29_EncodingPreservesEquality ==
    /\ nv.kind = "NaiveSearch" =>
           /\ SameEqualities(nv.x, nv.p.v)
           /\ Occ(nv.x.char_vector, nv.p.v.char_vector) = Occ(text, pat)
    /\ km.kind = "KMPSearch" =>
           /\ SameEqualities(km.x, km.p)
           /\ Occ(km.x.char_vector, km.p.char_vector) = Occ(text, pat)
    /\ bm.kind = "BMHSearch" =>
           /\ SameEqualities(bm.x, bm.p)
           /\ Occ(bm.x.char_vector, bm.p.char_vector) = Occ(text, pat)

\* C29 witness: the three matchers hold the encoding of a text of two
\* different characters and of a pattern of both that occurs in it twice
C29_Witness ==
    /\ nv.kind = "NaiveSearch" /\ km.kind = "KMPSearch" /\ bm.kind = "BMHSearch"
    /\ Cardinality(Elems(text)) = 2
    /\ Cardinality(Elems(pat)) = 2
    /\ Cardinality(Occ(text, pat)) >= 2


\* C30: naive encodes the text at the width kmp and bmh choose, u8 up to
\* 254 distinct characters and u16 beyond: on a text of 255 to 65533
\* distinct characters naive does not fail on the encoding, and it holds
\* the text and pattern that kmp holds, so that it returns kmp's offsets.
C30_NaiveWidthPolicy ==
    (/\ Char_MAX("U8") < WideTextSymbols
     /\ WideTextSymbols < Char_MAX("U16")
     /\ nv.kind # "uncalled"
     /\ km.kind # "uncalled") =>
        /\ nv.kind # "panic"
        /\ nv.kind = "Empty" <=> km.kind = "Empty"
        /\ nv.kind = "NaiveSearch" =>
               /\ km.kind = "KMPSearch"
               /\ nv.x.char_vector = km.x.char_vector
               /\ nv.p.v.char_vector = km.p.char_vector

====
